---- MODULE Spec2Model ----
(***************************************************************************)
(* The crate store of librustc (src/librustc/metadata/cstore.rs): the five *)
(* registries of CStore, its public operations, and the link order that    *)
(* get_used_crates computes.                                               *)
(*                                                                         *)
(* Values.  Option<T> is a sequence of length at most one: None is <<>>,   *)
(* Some(x) is <<x>>.  A ~str whose characters matter (a library name, a    *)
(* link argument string) is the sequence of its characters.  A HashMap is  *)
(* a function on the set of its keys; the order in which a HashMap is      *)
(* iterated is not specified, so every iteration takes an order as input.  *)
(*                                                                         *)
(* A failing operation (fail!, a failed assert!, a missing key) unwinds    *)
(* the task that owns the store: it is recorded in ret and no operation    *)
(* follows it.                                                             *)
(*                                                                         *)
(* Every registry is a RefCell.  borrows[cell] counts the borrows of the   *)
(* cell that are outstanding between two calls: the one iter_crate_data    *)
(* holds while its visitor runs, and those a caller holds on the cells     *)
(* get_used_libraries and get_used_link_args hand out.  A method's own     *)
(* borrow ends when the method returns.  visiting is the iteration of      *)
(* iter_crate_data in progress.                                            *)
(***************************************************************************)
EXTENDS Integers, Sequences, FiniteSets, TLC

VARIABLES metas, extern_mod_crate_map, used_crate_sources, used_libraries,
          used_link_args, ret, borrows, visiting

vars == <<metas, extern_mod_crate_map, used_crate_sources, used_libraries,
          used_link_args, ret, borrows, visiting>>

registries == <<metas, extern_mod_crate_map, used_crate_sources,
                used_libraries, used_link_args>>

(***************************************************************************)
(* Bounds of the model: the crate numbers and extern mod statements of the *)
(* whole-store specification, the length of a cnum_map, of the three       *)
(* vectors, and of a link argument string.                                 *)
(***************************************************************************)
MaxCnum == 2
MaxDeps == 2
MaxNode == 1
MaxSources == 3
MaxLibs == 2
MaxLinkArgs == 3
MaxStrLen == 2
MaxRefs == 1

\* The crate numbers of the whole-store specification, and the three crates
\* of the link-order specification, the fewest that form a diamond.
StoreCnums == 1..MaxCnum
CrateNums == {1, 2, 3}
AllCnums == StoreCnums \cup CrateNums
NodeIds == 1..MaxNode

(***************************************************************************)
(* Option, Vec and HashMap helpers of the standard library, as the store   *)
(* uses them.                                                              *)
(***************************************************************************)
None == <<>>
Some(x) == <<x>>

Range(s) == {s[i] : i \in 1..Len(s)}

Perms(S) == {s \in [1..Cardinality(S) -> S] : \A i, j \in 1..Cardinality(S) : s[i] = s[j] => i = j}

Vec_contains(v, x) == \E i \in 1..Len(v) : v[i] = x

\* Vec::position_elem: the 0-based index of the first element equal to x.
position_elem(v, x) ==
    IF Vec_contains(v, x)
    THEN Some((CHOOSE i \in 1..Len(v) : v[i] = x /\ \A j \in 1..(i - 1) : v[j] # x) - 1)
    ELSE None

RECURSIVE reverse(_)
reverse_noop(s) == s
reverse(s) == IF s = <<>> THEN <<>> ELSE Append(reverse(Tail(s)), Head(s))

HashMap_new == <<>>
HashMap_contains_key(m, k) == k \in DOMAIN m
HashMap_find(m, k) == IF k \in DOMAIN m THEN Some(m[k]) ELSE None
HashMap_insert_keep(m, k, v) ==
    [x \in DOMAIN m \cup {k} |-> IF x \in DOMAIN m THEN m[x] ELSE v]
HashMap_insert(m, k, v) ==
    [x \in DOMAIN m \cup {k} |-> IF x = k THEN v ELSE m[x]]

\* The outcome of a call: st is "ok", "fail" (task failure) or "overflow"
\* (unbounded recursion exhausts the stack).
Ok(v) == [st |-> "ok", v |-> v]
Failed == [st |-> "fail", v |-> <<>>]
Overflow == [st |-> "overflow", v |-> <<>>]

Call(op, args, r) == [op |-> op, args |-> args, st |-> r.st, val |-> r.v]

Alive == ret.st = "ok"

\* The five RefCells of the store, in the order in which reset clears them.
Cells == <<"metas", "extern_mod_crate_map", "used_crate_sources",
           "used_libraries", "used_link_args">>

\* RefCell::borrow_mut succeeds only on a cell without an outstanding
\* borrow; RefCell::borrow fails only on a mutably borrowed cell, and no
\* mutable borrow outlives the method that takes it.
can_borrow_mut(b, cell) == b[cell] = 0

\* No iteration in progress.
Idle == [active |-> FALSE, cur |-> 0, todo |-> <<>>]

(***************************************************************************)
(* Data.                                                                   *)
(***************************************************************************)
RequireDynamic == "RequireDynamic"
RequireStatic == "RequireStatic"
LinkagePreference == {RequireDynamic, RequireStatic}

NativeLibaryKind == {"NativeStatic", "NativeFramework", "NativeUnknown"}

MetadataVec(bytes) == [tag |-> "MetadataVec", bytes |-> bytes]
MetadataArchive(bytes) == [tag |-> "MetadataArchive", bytes |-> bytes]
as_slice(blob) == blob.bytes

crate_metadata(name, blob, cnum_map, cnum) ==
    [name |-> name, data |-> blob, cnum_map |-> cnum_map, cnum |-> cnum]
data(cdata) == as_slice(cdata.data)

CrateSource(dylib, rlib, cnum) == [dylib |-> dylib, rlib |-> rlib, cnum |-> cnum]

\* The two functions of the metadata decoder, opaque to the store.
decoder_get_crate_hash(bytes) == <<"Svh", bytes>>
decoder_get_crate_id(bytes) == <<"CrateId", bytes>>

(***************************************************************************)
(* CStore::new                                                             *)
(***************************************************************************)
Init ==
    /\ metas = HashMap_new
    /\ extern_mod_crate_map = HashMap_new
    /\ used_crate_sources = <<>>
    /\ used_libraries = <<>>
    /\ used_link_args = <<>>
    /\ ret = Call("new", <<>>, Ok(<<>>))
    /\ borrows = [cell \in Range(Cells) |-> 0]
    /\ visiting = Idle

(***************************************************************************)
(* The Crate Metadata Registry.                                            *)
(***************************************************************************)
lookup_crate_data_default(ms, cnum) ==
    IF HashMap_contains_key(ms, cnum) THEN Ok(ms[cnum])
    ELSE Ok(crate_metadata("", MetadataVec(<<>>), <<>>, cnum))
\* metas.get(&cnum): HashMap::get fails when the key is missing.
lookup_crate_data(ms, cnum) ==
    IF HashMap_contains_key(ms, cnum) THEN Ok(ms[cnum]) ELSE Failed

get_crate_data(cnum) ==
    /\ Alive
    /\ ret' = Call("get_crate_data", <<cnum>>, lookup_crate_data(metas, cnum))
    /\ UNCHANGED <<registries, borrows, visiting>>

get_crate_hash(cnum) ==
    /\ Alive
    /\ LET cdata == lookup_crate_data(metas, cnum)
       IN ret' = Call("get_crate_hash", <<cnum>>,
                      IF cdata.st = "ok" THEN Ok(decoder_get_crate_hash(data(cdata.v)))
                      ELSE cdata)
    /\ UNCHANGED <<registries, borrows, visiting>>

get_crate_id(cnum) ==
    /\ Alive
    /\ LET cdata == lookup_crate_data(metas, cnum)
       IN ret' = Call("get_crate_id", <<cnum>>,
                      IF cdata.st = "ok" THEN Ok(decoder_get_crate_id(data(cdata.v)))
                      ELSE cdata)
    /\ UNCHANGED <<registries, borrows, visiting>>

\* val is what HashMap::insert returns (TRUE when the key was new); the
\* method drops it.
set_crate_data_unchecked(cnum, cdata) ==
    /\ Alive
    /\ metas' = HashMap_insert(metas, cnum, cdata)
    /\ ret' = Call("set_crate_data", <<cnum, cdata>>,
                   Ok(~HashMap_contains_key(metas, cnum)))
    /\ UNCHANGED <<extern_mod_crate_map, used_crate_sources, used_libraries,
                   used_link_args, borrows, visiting>>
set_crate_data(cnum, cdata) ==
    /\ Alive
    /\ IF can_borrow_mut(borrows, "metas")
       THEN /\ metas' = HashMap_insert(metas, cnum, cdata)
            /\ ret' = Call("set_crate_data", <<cnum, cdata>>,
                           Ok(~HashMap_contains_key(metas, cnum)))
       ELSE /\ ret' = Call("set_crate_data", <<cnum, cdata>>, Failed)
            /\ UNCHANGED metas
    /\ UNCHANGED <<extern_mod_crate_map, used_crate_sources, used_libraries,
                   used_link_args, borrows, visiting>>

have_crate_data(cnum) ==
    /\ Alive
    /\ ret' = Call("have_crate_data", <<cnum>>, Ok(HashMap_contains_key(metas, cnum)))
    /\ UNCHANGED <<registries, borrows, visiting>>

\* iter_crate_data borrows metas and hands the pairs to the visitor in the
\* order metas_iter.  The step enters the method and, when metas is not
\* empty, the first call of the visitor; every operation that follows while
\* visiting.active holds is a call the visitor makes.
iter_crate_data(metas_iter) ==
    /\ Alive
    /\ ~visiting.active
    /\ borrows["metas"] < MaxRefs
    /\ IF metas_iter = <<>>
       THEN /\ ret' = Call("iter_crate_data", <<>>, Ok(<<>>))
            /\ UNCHANGED <<borrows, visiting>>
       ELSE /\ borrows' = [borrows EXCEPT !["metas"] = @ + 1]
            /\ visiting' = [active |-> TRUE, cur |-> Head(metas_iter),
                            todo |-> Tail(metas_iter)]
            /\ ret' = Call("visitor", <<Head(metas_iter), metas[Head(metas_iter)]>>,
                           Ok(<<>>))
    /\ UNCHANGED registries

\* The visitor returns: the loop calls it with the next pair or, after the
\* last one, iter_crate_data returns and its borrow ends.
visitor_return ==
    /\ Alive
    /\ visiting.active
    /\ IF visiting.todo = <<>>
       THEN /\ borrows' = [borrows EXCEPT !["metas"] = @ - 1]
            /\ visiting' = Idle
            /\ ret' = Call("iter_crate_data", <<>>, Ok(<<>>))
       ELSE /\ visiting' = [visiting EXCEPT !.cur = Head(visiting.todo),
                                            !.todo = Tail(visiting.todo)]
            /\ ret' = Call("visitor", <<Head(visiting.todo), metas[Head(visiting.todo)]>>,
                           Ok(<<>>))
            /\ UNCHANGED borrows
    /\ UNCHANGED registries

(***************************************************************************)
(* The Source Registry.                                                    *)
(***************************************************************************)
push_always(v, src) == Append(v, src)
\* The body of add_used_crate_source on the borrowed vector.
push_if_absent(v, src) == IF ~Vec_contains(v, src) THEN Append(v, src) ELSE v

\* val tells whether the source was pushed.
add_used_crate_source(src) ==
    /\ Alive
    /\ ~Vec_contains(used_crate_sources, src) => Len(used_crate_sources) < MaxSources
    /\ IF can_borrow_mut(borrows, "used_crate_sources")
       THEN /\ used_crate_sources' = push_if_absent(used_crate_sources, src)
            /\ ret' = Call("add_used_crate_source", <<src>>,
                           Ok(~Vec_contains(used_crate_sources, src)))
       ELSE /\ ret' = Call("add_used_crate_source", <<src>>, Failed)
            /\ UNCHANGED used_crate_sources
    /\ UNCHANGED <<metas, extern_mod_crate_map, used_libraries, used_link_args,
                   borrows, visiting>>

find_last_source(v, cnum) ==
    IF \E i \in 1..Len(v) : v[i].cnum = cnum
    THEN Some(v[CHOOSE i \in 1..Len(v) :
                   v[i].cnum = cnum /\ \A j \in (i + 1)..Len(v) : v[j].cnum # cnum])
    ELSE None
\* iter().find(|source| source.cnum == cnum).map(|source| source.clone())
find_source(v, cnum) ==
    IF \E i \in 1..Len(v) : v[i].cnum = cnum
    THEN Some(v[CHOOSE i \in 1..Len(v) :
                   v[i].cnum = cnum /\ \A j \in 1..(i - 1) : v[j].cnum # cnum])
    ELSE None

\* The method takes the vector with borrow_mut.
get_used_crate_source(cnum) ==
    /\ Alive
    /\ ret' = Call("get_used_crate_source", <<cnum>>,
                   IF can_borrow_mut(borrows, "used_crate_sources")
                   THEN Ok(find_source(used_crate_sources, cnum))
                   ELSE Failed)
    /\ UNCHANGED <<registries, borrows, visiting>>

(***************************************************************************)
(* reset                                                                   *)
(***************************************************************************)
\* reset clears the cells one after another with with_mut, which fails on
\* a borrowed cell: cell number i is cleared when it and the cells before
\* it are not borrowed.
reset_reaches(b, i) == \A j \in 1..i : can_borrow_mut(b, Cells[j])

reset_keeps_link_args ==
    /\ Alive
    /\ metas' = IF reset_reaches(borrows, 1) THEN HashMap_new ELSE metas
    /\ extern_mod_crate_map' =
          IF reset_reaches(borrows, 2) THEN HashMap_new ELSE extern_mod_crate_map
    /\ used_crate_sources' = IF reset_reaches(borrows, 3) THEN <<>> ELSE used_crate_sources
    /\ used_libraries' = IF reset_reaches(borrows, 4) THEN <<>> ELSE used_libraries
    /\ ret' = Call("reset", <<>>, IF reset_reaches(borrows, 5) THEN Ok(<<>>) ELSE Failed)
    /\ UNCHANGED <<used_link_args, borrows, visiting>>
reset ==
    /\ Alive
    /\ metas' = IF reset_reaches(borrows, 1) THEN HashMap_new ELSE metas
    /\ extern_mod_crate_map' =
          IF reset_reaches(borrows, 2) THEN HashMap_new ELSE extern_mod_crate_map
    /\ used_crate_sources' = IF reset_reaches(borrows, 3) THEN <<>> ELSE used_crate_sources
    /\ used_libraries' = IF reset_reaches(borrows, 4) THEN <<>> ELSE used_libraries
    /\ used_link_args' = IF reset_reaches(borrows, 5) THEN <<>> ELSE used_link_args
    /\ ret' = Call("reset", <<>>, IF reset_reaches(borrows, 5) THEN Ok(<<>>) ELSE Failed)
    /\ UNCHANGED <<borrows, visiting>>

(***************************************************************************)
(* get_used_crates: the link order.                                        *)
(*                                                                         *)
(* metas_iter is the order in which the iteration of metas yields the      *)
(* registered crate numbers; deps_iter[c] is the order in which the        *)
(* iteration of the cnum_map of crate c yields its keys.                   *)
(***************************************************************************)
RECURSIVE visit(_, _, _, _, _), visit_deps(_, _, _, _, _, _)

visit_preorder(ms, deps_iter, cnum, ordering, path) ==
    IF Vec_contains(ordering, cnum) THEN Ok(ordering)
    ELSE IF lookup_crate_data(ms, cnum).st # "ok" THEN Failed
    ELSE IF cnum \in path THEN Overflow
    ELSE visit_deps(ms, deps_iter, cnum, deps_iter[cnum], Append(ordering, cnum),
                    path \cup {cnum})
visit_no_memo(ms, deps_iter, cnum, ordering, path) ==
    IF lookup_crate_data(ms, cnum).st # "ok" THEN Failed
    ELSE IF cnum \in path THEN Overflow
    ELSE LET r == visit_deps(ms, deps_iter, cnum, deps_iter[cnum], ordering,
                             path \cup {cnum})
         IN  IF r.st = "ok" THEN Ok(Append(r.v, cnum)) ELSE r
visit_skip_unregistered(ms, deps_iter, cnum, ordering, path) ==
    IF Vec_contains(ordering, cnum) THEN Ok(ordering)
    ELSE IF lookup_crate_data(ms, cnum).st # "ok" THEN Ok(ordering)
    ELSE IF cnum \in path THEN Overflow
    ELSE LET r == visit_deps(ms, deps_iter, cnum, deps_iter[cnum], ordering,
                             path \cup {cnum})
         IN  IF r.st = "ok" THEN Ok(Append(r.v, cnum)) ELSE r
\* fn visit.  path holds the crate numbers whose visit is in progress: a
\* crate met again while it is in progress is not yet in ordering, so the
\* recursion never ends and the stack overflows.
visit(ms, deps_iter, cnum, ordering, path) ==
    IF Vec_contains(ordering, cnum) THEN Ok(ordering)
    ELSE IF lookup_crate_data(ms, cnum).st # "ok" THEN Failed
    ELSE IF cnum \in path THEN Overflow
    ELSE LET r == visit_deps(ms, deps_iter, cnum, deps_iter[cnum], ordering,
                             path \cup {cnum})
         IN  IF r.st = "ok" THEN Ok(Append(r.v, cnum)) ELSE r

\* The loop over meta.cnum_map of fn visit; keys are the keys still to come.
visit_deps(ms, deps_iter, cnum, keys, ordering, path) ==
    IF keys = <<>> THEN Ok(ordering)
    ELSE LET r == visit(ms, deps_iter, ms[cnum].cnum_map[Head(keys)], ordering, path)
         IN  IF r.st = "ok"
             THEN visit_deps(ms, deps_iter, cnum, Tail(keys), r.v, path)
             ELSE r

\* The loop over metas of get_used_crates; nums are the crates still to come.
RECURSIVE visit_all(_, _, _, _)
visit_all(ms, deps_iter, nums, ordering) ==
    IF nums = <<>> THEN Ok(ordering)
    ELSE LET r == visit(ms, deps_iter, Head(nums), ordering, {})
         IN  IF r.st = "ok" THEN visit_all(ms, deps_iter, Tail(nums), r.v) ELSE r

\* The ordering after ordering.as_mut_slice().reverse().
crate_ordering(ms, metas_iter, deps_iter) ==
    LET r == visit_all(ms, deps_iter, metas_iter, <<>>)
    IN  IF r.st = "ok" THEN Ok(reverse(r.v)) ELSE r

(***************************************************************************)
(* The traversal with an explicit visited set, the variant the             *)
(* specification recommends: a crate is marked when its visit starts, and  *)
(* a marked crate is not visited again.  acc holds the post-order sequence *)
(* and the set of marked crates.                                           *)
(***************************************************************************)
RECURSIVE visit_marked(_, _, _, _), visit_marked_deps(_, _, _, _, _)
visit_marked(ms, deps_iter, cnum, acc) ==
    IF cnum \in acc.visited THEN Ok(acc)
    ELSE IF lookup_crate_data(ms, cnum).st # "ok" THEN Failed
    ELSE LET r == visit_marked_deps(ms, deps_iter, cnum, deps_iter[cnum],
                         [acc EXCEPT !.visited = @ \cup {cnum}])
         IN  IF r.st = "ok"
             THEN Ok([r.v EXCEPT !.ordering = Append(@, cnum)])
             ELSE r

visit_marked_deps(ms, deps_iter, cnum, keys, acc) ==
    IF keys = <<>> THEN Ok(acc)
    ELSE LET r == visit_marked(ms, deps_iter, ms[cnum].cnum_map[Head(keys)], acc)
         IN  IF r.st = "ok"
             THEN visit_marked_deps(ms, deps_iter, cnum, Tail(keys), r.v)
             ELSE r

RECURSIVE visit_marked_all(_, _, _, _)
visit_marked_all(ms, deps_iter, nums, acc) ==
    IF nums = <<>> THEN Ok(acc)
    ELSE LET r == visit_marked(ms, deps_iter, Head(nums), acc)
         IN  IF r.st = "ok" THEN visit_marked_all(ms, deps_iter, Tail(nums), r.v) ELSE r

crate_ordering_marked(ms, metas_iter, deps_iter) ==
    LET r == visit_marked_all(ms, deps_iter, metas_iter,
                              [ordering |-> <<>>, visited |-> {}])
    IN  IF r.st = "ok" THEN Ok(reverse(r.v.ordering)) ELSE r

\* The derived TotalOrd of Option<uint>: None is less than every Some.
Option_cmp_none_last(a, b) ==
    IF a = None /\ b = None THEN "Equal"
    ELSE IF a = None THEN "Greater"
    ELSE IF b = None THEN "Less"
    ELSE IF a[1] < b[1] THEN "Less"
    ELSE IF a[1] > b[1] THEN "Greater" ELSE "Equal"
Option_cmp(a, b) ==
    IF a = None /\ b = None THEN "Equal"
    ELSE IF a = None THEN "Less"
    ELSE IF b = None THEN "Greater"
    ELSE IF a[1] < b[1] THEN "Less"
    ELSE IF a[1] > b[1] THEN "Greater" ELSE "Equal"

\* The comparator handed to sort_by.
cmp_libs(ordering, a, b) ==
    Option_cmp(position_elem(ordering, a[1]), position_elem(ordering, b[1]))

\* sort_by is a stable sort: an element goes behind every element that does
\* not compare Greater than it.
RECURSIVE sort_by(_, _)
sort_by(libs, ordering) ==
    IF libs = <<>> THEN <<>>
    ELSE LET n == Len(libs)
             e == libs[n]
             sorted == sort_by(SubSeq(libs, 1, n - 1), ordering)
             k == Cardinality({i \in 1..(n - 1) : cmp_libs(ordering, sorted[i], e) # "Greater"})
         IN  SubSeq(sorted, 1, k) \o <<e>> \o SubSeq(sorted, k + 1, n - 1)

\* match prefer { RequireDynamic => src.dylib.clone(), RequireStatic => src.rlib.clone() }
select_dylib(src, prefer) == src.dylib
select_path(src, prefer) ==
    IF prefer = RequireDynamic THEN src.dylib ELSE src.rlib

collect_libs_present(srcs, prefer) ==
    LET present == SelectSeq(srcs, LAMBDA src : select_path(src, prefer) # None)
    IN  [i \in 1..Len(present) |-> <<present[i].cnum, select_path(present[i], prefer)>>]
\* The libs vector before it is sorted.
collect_libs(srcs, prefer) ==
    [i \in 1..Len(srcs) |-> <<srcs[i].cnum, select_path(srcs[i], prefer)>>]

used_crates(ms, srcs, prefer, metas_iter, deps_iter) ==
    LET o == crate_ordering(ms, metas_iter, deps_iter)
    IN  IF o.st = "ok" THEN Ok(sort_by(collect_libs(srcs, prefer), o.v)) ELSE o

\* The iteration orders a HashMap with the keys of ms, and the cnum_map of
\* each of its crates, can have.
MetasIters(ms) == Perms(DOMAIN ms)
DepsIters(ms) ==
    {f \in [DOMAIN ms -> UNION {Perms(1..n) : n \in 0..MaxDeps}] :
        \A c \in DOMAIN ms : f[c] \in Perms(DOMAIN ms[c].cnum_map)}

get_used_crates(prefer) ==
    /\ Alive
    /\ \E metas_iter \in MetasIters(metas), deps_iter \in DepsIters(metas) :
          ret' = Call("get_used_crates", <<prefer>>,
                      used_crates(metas, used_crate_sources, prefer, metas_iter, deps_iter))
    /\ UNCHANGED <<registries, borrows, visiting>>

(***************************************************************************)
(* The Native Library Registry and the link arguments.                     *)
(***************************************************************************)
is_empty_never(str) == FALSE
is_empty(str) == Len(str) = 0

add_used_library(lib, kind) ==
    /\ Alive
    /\ ~is_empty(lib) => Len(used_libraries) < MaxLibs
    /\ IF ~is_empty(lib) /\ can_borrow_mut(borrows, "used_libraries")
       THEN /\ used_libraries' = Append(used_libraries, <<lib, kind>>)
            /\ ret' = Call("add_used_library", <<lib, kind>>, Ok(<<>>))
       ELSE /\ ret' = Call("add_used_library", <<lib, kind>>, Failed)
            /\ UNCHANGED used_libraries
    /\ UNCHANGED <<metas, extern_mod_crate_map, used_crate_sources, used_link_args,
                   borrows, visiting>>

\* The method hands out the cell itself; val names it.
get_used_libraries ==
    /\ Alive
    /\ ret' = Call("get_used_libraries", <<>>, Ok("used_libraries"))
    /\ UNCHANGED <<registries, borrows, visiting>>

RECURSIVE split(_, _), split_words(_, _)
split_words(str, sep) ==
    IF ~Vec_contains(str, sep) THEN (IF str = <<>> THEN <<>> ELSE <<str>>)
    ELSE LET i == position_elem(str, sep)[1] + 1
         IN  (IF i = 1 THEN <<>> ELSE <<SubSeq(str, 1, i - 1)>>)
                \o split_words(SubSeq(str, i + 1, Len(str)), sep)
\* str::split(sep): the pieces between the occurrences of sep, empty ones kept.
split(str, sep) ==
    IF ~Vec_contains(str, sep) THEN <<str>>
    ELSE LET i == position_elem(str, sep)[1] + 1
         IN  <<SubSeq(str, 1, i - 1)>> \o split(SubSeq(str, i + 1, Len(str)), sep)

add_used_link_args(args) ==
    /\ Alive
    /\ Len(used_link_args) + Len(split(args, " ")) <= MaxLinkArgs
    /\ IF can_borrow_mut(borrows, "used_link_args")
       THEN /\ used_link_args' = used_link_args \o split(args, " ")
            /\ ret' = Call("add_used_link_args", <<args>>, Ok(<<>>))
       ELSE /\ ret' = Call("add_used_link_args", <<args>>, Failed)
            /\ UNCHANGED used_link_args
    /\ UNCHANGED <<metas, extern_mod_crate_map, used_crate_sources, used_libraries,
                   borrows, visiting>>

get_used_link_args ==
    /\ Alive
    /\ ret' = Call("get_used_link_args", <<>>, Ok("used_link_args"))
    /\ UNCHANGED <<registries, borrows, visiting>>

\* The caller borrows the cell it was just handed (cell.borrow()), and later
\* drops the borrow.
caller_borrow ==
    /\ Alive
    /\ ret.op \in {"get_used_libraries", "get_used_link_args"}
    /\ borrows[ret.val] < MaxRefs
    /\ borrows' = [borrows EXCEPT ![ret.val] = @ + 1]
    /\ ret' = Call("borrow", <<ret.val>>, Ok(<<>>))
    /\ UNCHANGED <<registries, visiting>>

caller_release(cell) ==
    /\ Alive
    /\ cell \in {"used_libraries", "used_link_args"}
    /\ borrows[cell] > 0
    /\ borrows' = [borrows EXCEPT ![cell] = @ - 1]
    /\ ret' = Call("release", <<cell>>, Ok(<<>>))
    /\ UNCHANGED <<registries, visiting>>

(***************************************************************************)
(* The ExternMod map.                                                      *)
(***************************************************************************)
\* val is what HashMap::insert returns (TRUE when the key was new); the
\* method drops it.
add_extern_mod_stmt_cnum(emod_id, cnum) ==
    /\ Alive
    /\ IF can_borrow_mut(borrows, "extern_mod_crate_map")
       THEN /\ extern_mod_crate_map' =
                  HashMap_insert(extern_mod_crate_map, emod_id, cnum)
            /\ ret' = Call("add_extern_mod_stmt_cnum", <<emod_id, cnum>>,
                           Ok(~HashMap_contains_key(extern_mod_crate_map, emod_id)))
       ELSE /\ ret' = Call("add_extern_mod_stmt_cnum", <<emod_id, cnum>>, Failed)
            /\ UNCHANGED extern_mod_crate_map
    /\ UNCHANGED <<metas, used_crate_sources, used_libraries, used_link_args,
                   borrows, visiting>>

find_extern_mod_stmt_cnum(emod_id) ==
    /\ Alive
    /\ ret' = Call("find_extern_mod_stmt_cnum", <<emod_id>>,
                   Ok(HashMap_find(extern_mod_crate_map, emod_id)))
    /\ UNCHANGED <<registries, borrows, visiting>>

(***************************************************************************)
(* Inputs.                                                                 *)
(***************************************************************************)
\* A cnum_map has the keys 1..n, the numbers the crate gave its own
\* dependencies, and maps them to crate numbers of this session.  The
\* dependencies of crate c are numbered after c, as the loader numbers them
\* while it resolves c; the last crate may also name the first one, which
\* closes a cycle.
DepNums(c) ==
    {d \in CrateNums : d > c} \cup (IF \A d \in CrateNums : d <= c THEN {1} ELSE {})
CnumMaps(c) ==
    UNION {{m \in [1..n -> DepNums(c)] : \A i, j \in 1..n : i < j => m[i] < m[j]} :
              n \in 0..MaxDeps}

\* The records and sources of the whole-store specification.
StoreRecords(c) ==
    {crate_metadata("std", MetadataVec(<<1>>), <<>>, c)}
      \cup (IF c = 1 THEN {crate_metadata("extra", MetadataArchive(<<2>>), <<1>>, c)} ELSE {})
StoreSources == {CrateSource(Some("liba.so"), None, 1)}

\* The records and sources of the link-order specification.
LinkRecords(c) ==
    {crate_metadata("c", MetadataVec(<<c>>), m, c) : m \in CnumMaps(c)}
LinkSources ==
    {CrateSource(Some("liba.so"), None, 1), CrateSource(None, Some("liba.rlib"), 1)}
      \cup {CrateSource(Some("lib.so"), Some("lib.rlib"), c) : c \in CrateNums \ {1}}

Chars == {" ", "a"}
ExampleArgs == <<"-", "l", "m", " ", "-", "l", "p", "t", "h", "r", "e", "a", "d">>
Strs == UNION {[1..n -> Chars] : n \in 0..MaxStrLen} \cup {ExampleArgs}
LibNames == {<<>>, <<"m">>}

\* The sources of the source specification: every value of the type
\* CrateSource for crate 1 over one dylib path and one rlib path.
AnySources ==
    {CrateSource(d, r, 1) : d \in {None, Some("liba.so")}, r \in {None, Some("liba.rlib")}}

\* The use sites and crate numbers of the extern-mod specification.
ExternIds == {1, 2, 3}
ExternCnums == {1, 2}

\* The inputs of the borrow specification: one value for each registry.
BorrowCnums == {1, 2}
BorrowRecord(c) == crate_metadata("std", MetadataVec(<<1>>), <<>>, c)

(***************************************************************************)
(* The whole store on small inputs, without outstanding borrows.           *)
(***************************************************************************)
Next ==
    \/ \E c \in StoreCnums : get_crate_data(c)
    \/ \E c \in StoreCnums : get_crate_hash(c)
    \/ \E c \in StoreCnums : get_crate_id(c)
    \/ \E c \in StoreCnums : \E r \in StoreRecords(c) : set_crate_data(c, r)
    \/ \E c \in StoreCnums : have_crate_data(c)
    \/ \E src \in StoreSources : add_used_crate_source(src)
    \/ \E c \in StoreCnums : get_used_crate_source(c)
    \/ reset
    \/ \E prefer \in LinkagePreference : get_used_crates(prefer)
    \/ \E lib \in LibNames : add_used_library(lib, "NativeUnknown")
    \/ add_used_link_args(<<"a", " ", "a">>)
    \/ \E id \in NodeIds : \E c \in StoreCnums : add_extern_mod_stmt_cnum(id, c)
    \/ \E id \in NodeIds : find_extern_mod_stmt_cnum(id)

Spec == Init /\ [][Next]_vars

(***************************************************************************)
(* The link order: registered crates, their sources and get_used_crates.   *)
(***************************************************************************)
NextLink ==
    \/ \E c \in CrateNums : \E r \in LinkRecords(c) : set_crate_data(c, r)
    \/ \E src \in LinkSources : add_used_crate_source(src)
    \/ \E c \in CrateNums : get_used_crate_source(c)
    \/ \E prefer \in LinkagePreference : get_used_crates(prefer)
    \/ reset

SpecLink == Init /\ [][NextLink]_vars

(***************************************************************************)
(* The native libraries and the link arguments.                            *)
(***************************************************************************)
NextNative ==
    \/ \E lib \in LibNames : \E kind \in NativeLibaryKind : add_used_library(lib, kind)
    \/ \E args \in Strs : add_used_link_args(args)
    \/ reset

SpecNative == Init /\ [][NextNative]_vars

(***************************************************************************)
(* The extern-mod map: several use sites, their bindings and reset.        *)
(***************************************************************************)
NextExtern ==
    \/ \E id \in ExternIds : \E c \in ExternCnums : add_extern_mod_stmt_cnum(id, c)
    \/ \E id \in ExternIds : find_extern_mod_stmt_cnum(id)
    \/ reset

SpecExtern == Init /\ [][NextExtern]_vars

(***************************************************************************)
(* The Source Registry alone, fed with every value of the type CrateSource.*)
(***************************************************************************)
NextSource ==
    \/ \E src \in AnySources : add_used_crate_source(src)
    \/ get_used_crate_source(1)
    \/ \E prefer \in LinkagePreference : get_used_crates(prefer)
    \/ reset

SpecSource == Init /\ [][NextSource]_vars

(***************************************************************************)
(* The dependency graph alone: registered crates and get_used_crates.      *)
(***************************************************************************)
NextGraph ==
    \/ \E c \in CrateNums : \E r \in LinkRecords(c) : set_crate_data(c, r)
    \/ \E prefer \in LinkagePreference : get_used_crates(prefer)
    \/ reset

SpecGraph == Init /\ [][NextGraph]_vars

(***************************************************************************)
(* Outstanding borrows: the mutators and reset, called from the visitor of *)
(* iter_crate_data or by a caller that holds a borrow of the libraries or  *)
(* of the link arguments.                                                  *)
(***************************************************************************)
NextBorrow ==
    \/ \E c \in BorrowCnums : set_crate_data(c, BorrowRecord(c))
    \/ \E metas_iter \in MetasIters(metas) : iter_crate_data(metas_iter)
    \/ visitor_return
    \/ \E src \in StoreSources : add_used_crate_source(src)
    \/ add_extern_mod_stmt_cnum(1, 1)
    \/ add_used_library(<<"m">>, "NativeUnknown")
    \/ get_used_libraries
    \/ add_used_link_args(<<"a", " ", "a">>)
    \/ get_used_link_args
    \/ caller_borrow
    \/ \E cell \in Range(Cells) : caller_release(cell)
    \/ reset

SpecBorrow == Init /\ [][NextBorrow]_vars

(***************************************************************************)
(* The dependency graph of a registry: an edge c -> d for every value d of *)
(* the cnum_map of a registered crate c.                                   *)
(***************************************************************************)
Deps(ms, c) == IF c \in DOMAIN ms THEN Range(ms[c].cnum_map) ELSE {}
Edges(ms) == {e \in AllCnums \X AllCnums : e[1] \in DOMAIN ms /\ e[2] \in Deps(ms, e[1])}

RECURSIVE Descendants(_, _, _)
Descendants(ms, S, n) ==
    IF n = 0 THEN S
    ELSE Descendants(ms, S \cup UNION {Deps(ms, c) : c \in S}, n - 1)

Acyclic(ms) ==
    \A c \in DOMAIN ms : c \notin Descendants(ms, Deps(ms, c), Cardinality(AllCnums))
DepsRegistered(ms) == \A e \in Edges(ms) : e[2] \in DOMAIN ms

Count(seq, x) == Cardinality({i \in 1..Len(seq) : seq[i] = x})
Cnums(libs) == [i \in 1..Len(libs) |-> libs[i][1]]
SourceCnums(srcs) == [i \in 1..Len(srcs) |-> srcs[i].cnum]

UsedCratesReturned == ret.op = "get_used_crates" /\ ret.st = "ok"

(***************************************************************************)
(* C1.  Topological link order: when the dependency graph is acyclic and   *)
(* every dependency is registered, then in the result of get_used_crates,  *)
(* for either preference, every entry of a crate d comes after every entry *)
(* of a crate c that depends on d.                                         *)
(***************************************************************************)
C1_TopologicalLinkOrder ==
    (UsedCratesReturned /\ Acyclic(metas) /\ DepsRegistered(metas)) =>
        \A i, j \in 1..Len(ret.val) :
            <<ret.val[i][1], ret.val[j][1]>> \in Edges(metas) => i < j

\* A diamond 1 -> 2 -> 3, 1 -> 3; crate 1 has two entries in the result and
\* crate 3 one, whose source was the first to be added.
C1_Witness ==
    /\ UsedCratesReturned
    /\ Acyclic(metas) /\ DepsRegistered(metas)
    /\ Edges(metas) = {<<1, 2>>, <<1, 3>>, <<2, 3>>}
    /\ Count(Cnums(ret.val), 1) = 2
    /\ Count(Cnums(ret.val), 3) = 1
    /\ used_crate_sources[1].cnum = 3

(***************************************************************************)
(* C2.  As claimed: on an acyclic graph every crate number that is the     *)
(* target of an edge appears exactly once among the crate numbers of the   *)
(* result of get_used_crates.                                              *)
(***************************************************************************)
C2_TargetExactlyOnce ==
    (UsedCratesReturned /\ Acyclic(metas)) =>
        \A e \in Edges(metas) : Count(Cnums(ret.val), e[2]) = 1

(***************************************************************************)
(* C2, amended.  On an acyclic graph every crate number that is the target *)
(* of an edge appears among the crate numbers of the result exactly as     *)
(* often as the Source Registry holds an entry for it, however many paths  *)
(* reach it.                                                               *)
(***************************************************************************)
C2_TargetOncePerSource ==
    (UsedCratesReturned /\ Acyclic(metas)) =>
        \A e \in Edges(metas) :
            Count(Cnums(ret.val), e[2]) = Count(SourceCnums(used_crate_sources), e[2])

\* Crate 3 is reached from crate 1 directly and through crate 2, has one
\* source and one entry in the result.
C2_Witness ==
    /\ UsedCratesReturned
    /\ Acyclic(metas)
    /\ {<<1, 2>>, <<1, 3>>, <<2, 3>>} \subseteq Edges(metas)
    /\ Count(SourceCnums(used_crate_sources), 3) = 1
    /\ Count(Cnums(ret.val), 3) = 1
    /\ Len(ret.val) = 3

(***************************************************************************)
(* C3.  As claimed: in the result of get_used_crates every entry of a      *)
(* crate that is not registered comes after every entry of a registered    *)
(* crate.                                                                  *)
(***************************************************************************)
C3_UnregisteredLast ==
    UsedCratesReturned =>
        \A i, j \in 1..Len(ret.val) :
            (ret.val[i][1] \notin DOMAIN metas /\ ret.val[j][1] \in DOMAIN metas) => i > j

(***************************************************************************)
(* C3, amended.  In the result of get_used_crates every entry of a crate   *)
(* that is not registered comes before every entry of a registered crate.  *)
(***************************************************************************)
C3_UnregisteredFirst ==
    UsedCratesReturned =>
        \A i, j \in 1..Len(ret.val) :
            (ret.val[i][1] \notin DOMAIN metas /\ ret.val[j][1] \in DOMAIN metas) => i < j

\* The source of an unregistered crate was added after the source of a
\* registered one, and its entry is the first of the result.
C3_Witness ==
    /\ UsedCratesReturned
    /\ Len(used_crate_sources) >= 2
    /\ used_crate_sources[1].cnum \in DOMAIN metas
    /\ used_crate_sources[2].cnum \notin DOMAIN metas
    /\ ret.val[1][1] = used_crate_sources[2].cnum

(***************************************************************************)
(* C4.  A record set for a crate number stays: set_crate_data(c, r) makes  *)
(* have_crate_data(c) true and get_crate_data(c) return r, replacing the   *)
(* record c had and leaving one record for c and the records of the other  *)
(* crates as they were; no operation other than reset and set_crate_data   *)
(* changes the registry; and get_crate_data and have_crate_data answer     *)
(* from the registry.                                                      *)
(***************************************************************************)
C4_SetCrateDataPersists ==
    [][/\ ret'.op = "set_crate_data" =>
            LET c == ret'.args[1]
                r == ret'.args[2]
            IN  /\ HashMap_contains_key(metas', c)
                /\ lookup_crate_data(metas', c) = Ok(r)
                /\ DOMAIN metas' = DOMAIN metas \cup {c}
                /\ \A k \in DOMAIN metas \ {c} : metas'[k] = metas[k]
       /\ ret'.op \notin {"set_crate_data", "reset"} => metas' = metas
       /\ ret'.op = "have_crate_data" =>
            ret'.val = (ret'.args[1] \in DOMAIN metas)
       /\ (ret'.op = "get_crate_data" /\ ret'.args[1] \in DOMAIN metas) =>
            (ret'.st = "ok" /\ ret'.val = metas[ret'.args[1]])
      ]_vars

\* A second set_crate_data for crate 1 replaced its record, with the other
\* registries filled.
C4_Witness ==
    /\ ret.op = "set_crate_data"
    /\ ret.args[1] = 1
    /\ ret.val = FALSE
    /\ metas[1] = ret.args[2]
    /\ metas[1].name = "extra"
    /\ DOMAIN metas = {1, 2}
    /\ used_crate_sources # <<>>

(***************************************************************************)
(* C5.  After reset all five registries are empty: no crate has data, no   *)
(* extern mod statement has a crate number, no crate has a source, there   *)
(* are no native libraries and no link arguments, and get_used_crates      *)
(* returns the empty sequence.                                             *)
(***************************************************************************)
C5_ResetClearsAll ==
    ret.op = "reset" =>
        /\ \A c \in AllCnums : ~HashMap_contains_key(metas, c)
        /\ \A id \in NodeIds : HashMap_find(extern_mod_crate_map, id) = None
        /\ \A c \in AllCnums : find_source(used_crate_sources, c) = None
        /\ used_libraries = <<>>
        /\ used_link_args = <<>>
        /\ \A prefer \in LinkagePreference :
             \A metas_iter \in MetasIters(metas), deps_iter \in DepsIters(metas) :
                used_crates(metas, used_crate_sources, prefer, metas_iter, deps_iter)
                    = Ok(<<>>)

C5_Witness ==
    /\ ret.op = "reset"
    /\ ret.st = "ok"
    /\ registries = <<HashMap_new, HashMap_new, <<>>, <<>>, <<>>>>

(***************************************************************************)
(* C6.  get_crate_data, get_crate_hash and get_crate_id fail exactly when  *)
(* the crate number is not registered, return the record (its hash, its    *)
(* id) otherwise, and leave the registries unchanged either way.           *)
(***************************************************************************)
C6_LookupFailsIffUnregistered ==
    [][ret'.op \in {"get_crate_data", "get_crate_hash", "get_crate_id"} =>
          LET c == ret'.args[1]
          IN  /\ registries' = registries
              /\ ret'.st \in {"ok", "fail"}
              /\ ret'.st = "fail" <=> c \notin DOMAIN metas
              /\ ret'.st = "ok" =>
                   ret'.val = CASE ret'.op = "get_crate_data" -> metas[c]
                                [] ret'.op = "get_crate_hash" ->
                                     decoder_get_crate_hash(metas[c].data.bytes)
                                [] ret'.op = "get_crate_id" ->
                                     decoder_get_crate_id(metas[c].data.bytes)
      ]_vars

\* get_crate_hash failed for crate 2 while crate 1 is registered.
C6_Witness ==
    /\ ret.op = "get_crate_hash"
    /\ ret.st = "fail"
    /\ ret.args[1] = 2
    /\ DOMAIN metas = {1}

(***************************************************************************)
(* C7.  The Source Registry never holds two equal entries.                 *)
(* add_used_crate_source(src) changes nothing when an equal entry is       *)
(* stored and otherwise appends src behind the entries there are, so two   *)
(* sources of one crate with different paths are two entries.              *)
(***************************************************************************)
NoEqualSources(srcs) == \A i, j \in 1..Len(srcs) : srcs[i] = srcs[j] => i = j

C7_SourceDedup ==
    [][/\ NoEqualSources(used_crate_sources')
       /\ ret'.op = "add_used_crate_source" =>
            LET src == ret'.args[1]
            IN  IF \E i \in 1..Len(used_crate_sources) : used_crate_sources[i] = src
                THEN used_crate_sources' = used_crate_sources
                ELSE used_crate_sources' = used_crate_sources \o <<src>>
      ]_vars

\* Two sources of crate 1 with different paths are stored, and adding the
\* first of them again changed nothing.
C7_Witness ==
    /\ ret.op = "add_used_crate_source"
    /\ ret.val = FALSE
    /\ Len(used_crate_sources) = 2
    /\ used_crate_sources[1].cnum = 1
    /\ used_crate_sources[2].cnum = 1
    /\ used_crate_sources[1] # used_crate_sources[2]
    /\ ret.args[1] = used_crate_sources[1]

(***************************************************************************)
(* C8.  get_used_crate_source(c) returns the stored entry of c that was    *)
(* added first, returns None without failing when no entry of c is stored, *)
(* and leaves the Source Registry unchanged.                               *)
(***************************************************************************)
C8_FirstSourceOfCrate ==
    [][ret'.op = "get_used_crate_source" =>
          LET c == ret'.args[1]
              at == {i \in 1..Len(used_crate_sources) : used_crate_sources[i].cnum = c}
          IN  /\ ret'.st = "ok"
              /\ used_crate_sources' = used_crate_sources
              /\ at = {} => ret'.val = None
              /\ at # {} =>
                   \E i \in at : /\ \A j \in at : i <= j
                                 /\ ret'.val = Some(used_crate_sources[i])
      ]_vars

\* Crate 1 has two entries, behind an entry of another crate; the first of
\* the two is returned.
C8_Witness ==
    /\ ret.op = "get_used_crate_source"
    /\ ret.args[1] = 1
    /\ Len(used_crate_sources) = 3
    /\ used_crate_sources[1].cnum # 1
    /\ used_crate_sources[2].cnum = 1
    /\ used_crate_sources[3].cnum = 1
    /\ ret.val = Some(used_crate_sources[2])

(***************************************************************************)
(* C9.  add_used_library fails for every kind when the name is empty and   *)
(* then leaves the Native Library Registry unchanged; otherwise it appends *)
(* the name and the kind, duplicates included.  No stored native library   *)
(* has an empty name.                                                      *)
(***************************************************************************)
C9_EmptyLibraryNameFails ==
    [][/\ \A i \in 1..Len(used_libraries') : used_libraries'[i][1] # <<>>
       /\ ret'.op = "add_used_library" =>
            LET lib == ret'.args[1]
                kind == ret'.args[2]
            IN  IF lib = <<>>
                THEN ret'.st = "fail" /\ used_libraries' = used_libraries
                ELSE ret'.st = "ok" /\ used_libraries' = used_libraries \o <<<<lib, kind>>>>
      ]_vars

\* The empty name failed with the kind NativeStatic, and the registry holds
\* the same library twice.
C9_Witness ==
    /\ ret.op = "add_used_library"
    /\ ret.st = "fail"
    /\ ret.args = <<<<>>, "NativeStatic">>
    /\ Len(used_libraries) = 2
    /\ used_libraries[1] = used_libraries[2]

(***************************************************************************)
(* C10.  add_used_link_args(args) appends, behind the tokens there are and *)
(* without changing them, the pieces of args between its spaces from left  *)
(* to right: pieces without a space that, joined by single spaces, are     *)
(* args.  "-lm -lpthread" gives "-lm" and "-lpthread".                     *)
(***************************************************************************)
RECURSIVE Join(_, _)
Join(pieces, sep) ==
    IF Len(pieces) = 0 THEN <<>>
    ELSE IF Len(pieces) = 1 THEN pieces[1]
    ELSE pieces[1] \o <<sep>> \o Join(Tail(pieces), sep)

C10_LinkArgsSplitAppended ==
    [][ret'.op = "add_used_link_args" =>
          LET args == ret'.args[1]
              n == Len(used_link_args)
              added == SubSeq(used_link_args', n + 1, Len(used_link_args'))
          IN  /\ Len(used_link_args') > n
              /\ SubSeq(used_link_args', 1, n) = used_link_args
              /\ \A i \in 1..Len(added) : " " \notin Range(added[i])
              /\ Join(added, " ") = args
              /\ args = ExampleArgs =>
                   added = << <<"-", "l", "m">>,
                              <<"-", "l", "p", "t", "h", "r", "e", "a", "d">> >>
      ]_vars

\* "-lm -lpthread" was added behind a token of an earlier call.
C10_Witness ==
    /\ ret.op = "add_used_link_args"
    /\ ret.args[1] = ExampleArgs
    /\ used_link_args = << <<"a">>, <<"-", "l", "m">>,
                           <<"-", "l", "p", "t", "h", "r", "e", "a", "d">> >>

(***************************************************************************)
(* C11.  The extern-mod map is last-write-wins.  add_extern_mod_stmt_cnum  *)
(* (id, c) binds id to c, whatever id was bound to, and changes the        *)
(* binding of no other use site; find_extern_mod_stmt_cnum(id) answers     *)
(* the binding of id, absent when id is not bound; reset unbinds every     *)
(* use site and no other operation changes the map.  Hence find answers    *)
(* the crate number of the latest add for id since construction or the     *)
(* last reset, and several use sites may be bound to one crate number.     *)
(***************************************************************************)
C11_ExternModLastWriteWins ==
    [][/\ ret'.op = "add_extern_mod_stmt_cnum" =>
            /\ ret'.st = "ok"
            /\ DOMAIN extern_mod_crate_map' =
                  DOMAIN extern_mod_crate_map \cup {ret'.args[1]}
            /\ extern_mod_crate_map'[ret'.args[1]] = ret'.args[2]
            /\ \A id \in DOMAIN extern_mod_crate_map \ {ret'.args[1]} :
                  extern_mod_crate_map'[id] = extern_mod_crate_map[id]
       /\ ret'.op = "find_extern_mod_stmt_cnum" =>
            /\ ret'.st = "ok"
            /\ ret'.val = IF ret'.args[1] \in DOMAIN extern_mod_crate_map
                          THEN Some(extern_mod_crate_map[ret'.args[1]])
                          ELSE None
       /\ ret'.op = "reset" => DOMAIN extern_mod_crate_map' = {}
       /\ ret'.op \notin {"add_extern_mod_stmt_cnum", "reset"} =>
            extern_mod_crate_map' = extern_mod_crate_map]_vars

\* Use site 1 was bound to crate 1 and is then bound to crate 2 (val FALSE:
\* the key was there), use site 2 keeps its binding to crate 2, use site 3
\* is not bound: two use sites share a crate number.
C11_Witness ==
    /\ ret.op = "add_extern_mod_stmt_cnum"
    /\ ret.args = <<1, 2>>
    /\ ret.val = FALSE
    /\ DOMAIN extern_mod_crate_map = {1, 2}
    /\ extern_mod_crate_map[1] = 2
    /\ extern_mod_crate_map[2] = 2

(***************************************************************************)
(* C12.  A mutation of a registry attempted while a borrow of that         *)
(* registry is outstanding fails and leaves the registry as it was:        *)
(* set_crate_data and reset called by the visitor of iter_crate_data leave *)
(* metas unchanged; add_used_library, and reset, called while the caller   *)
(* holds a borrow of the cell get_used_libraries returned leave            *)
(* used_libraries unchanged; add_used_link_args, and reset, called while   *)
(* the caller holds a borrow of the cell get_used_link_args returned leave *)
(* used_link_args unchanged.  The call ends (in a failure) in one step.    *)
(***************************************************************************)
C12_ReentrantMutationFails ==
    [][/\ (ret'.op \in {"set_crate_data", "reset"} /\ visiting.active) =>
            /\ borrows["metas"] > 0
            /\ ret'.st = "fail"
            /\ metas' = metas
       /\ (ret'.op \in {"add_used_library", "reset"}
             /\ borrows["used_libraries"] > 0) =>
            /\ ret'.st = "fail"
            /\ used_libraries' = used_libraries
       /\ (ret'.op \in {"add_used_link_args", "reset"}
             /\ borrows["used_link_args"] > 0) =>
            /\ ret'.st = "fail"
            /\ used_link_args' = used_link_args]_vars

\* set_crate_data for crate 2, called by the visitor while it is handed
\* crate 1, has failed, and crate 2 is still not registered.
C12_Witness ==
    /\ ret.op = "set_crate_data"
    /\ ret.args[1] = 2
    /\ ret.st = "fail"
    /\ visiting.active
    /\ visiting.cur = 1
    /\ DOMAIN metas = {1}

(***************************************************************************)
(* C13.  As claimed: in every state whose dependency graph is acyclic,     *)
(* get_used_crates returns without failing, also when a registered crate   *)
(* names a dependency that is not registered.                              *)
(***************************************************************************)
C13_TotalOnAcyclic ==
    (ret.op = "get_used_crates" /\ Acyclic(metas)) => ret.st = "ok"

(***************************************************************************)
(* C13, amended.  In every state whose dependency graph is acyclic,        *)
(* get_used_crates returns without failing exactly when every dependency   *)
(* of a registered crate is registered; when one is not, the call fails    *)
(* (the traversal looks the dependency up with get_crate_data).            *)
(***************************************************************************)
C13_TotalWhenDepsRegistered ==
    (ret.op = "get_used_crates" /\ Acyclic(metas)) =>
        /\ DepsRegistered(metas) => ret.st = "ok"
        /\ ~DepsRegistered(metas) => ret.st = "fail"

\* Crates 1 and 3 are registered, crate 1 depends on crate 2, which is not
\* registered: get_used_crates has failed.
C13_Witness ==
    /\ ret.op = "get_used_crates"
    /\ ret.st = "fail"
    /\ DOMAIN metas = {1, 3}
    /\ metas[1].cnum_map = <<2>>
    /\ metas[3].cnum_map = <<>>

(***************************************************************************)
(* C14.  The result of get_used_crates(p) is the Source Registry projected *)
(* entry by entry and permuted: it has as many entries as the registry,    *)
(* and for every crate number its entries are, in insertion order, the     *)
(* pairs (s.cnum, path) of the stored sources s of that crate, where path  *)
(* is s.dylib when p is RequireDynamic and s.rlib when p is RequireStatic. *)
(* A registered crate without a source has no entry.                       *)
(***************************************************************************)
C14_JoinWithSources ==
    UsedCratesReturned =>
        LET p == ret.args[1]
            projected == [i \in 1..Len(used_crate_sources) |->
                            <<used_crate_sources[i].cnum,
                              IF p = RequireDynamic THEN used_crate_sources[i].dylib
                              ELSE used_crate_sources[i].rlib>>]
        IN  /\ Len(ret.val) = Len(used_crate_sources)
            /\ \A c \in AllCnums :
                  SelectSeq(ret.val, LAMBDA e : e[1] = c)
                    = SelectSeq(projected, LAMBDA e : e[1] = c)
            /\ \A c \in DOMAIN metas :
                  c \notin Range(SourceCnums(used_crate_sources)) =>
                      c \notin Range(Cnums(ret.val))

\* RequireStatic with two sources of crate 1, the first without an rlib,
\* behind a source of crate 2 on which crate 1 depends; crate 3 is
\* registered without a source.
C14_Witness ==
    /\ UsedCratesReturned
    /\ ret.args[1] = RequireStatic
    /\ DOMAIN metas = {1, 2, 3}
    /\ metas[1].cnum_map = <<2>>
    /\ used_crate_sources = <<CrateSource(Some("lib.so"), Some("lib.rlib"), 2),
                              CrateSource(Some("liba.so"), None, 1),
                              CrateSource(None, Some("liba.rlib"), 1)>>
    /\ ret.val = <<<<1, None>>, <<1, Some("liba.rlib")>>, <<2, Some("lib.rlib")>>>>

\* The place of crate c in an ordering that holds it.
Place(ordering, c) == CHOOSE i \in 1..Len(ordering) : ordering[i] = c

(***************************************************************************)
(* C15.  When the dependency graph is acyclic and every dependency is      *)
(* registered, the ordering get_used_crates builds (post-order from every  *)
(* registered crate, reversed) holds every registered crate number exactly *)
(* once and nothing else, and holds every crate before each of its         *)
(* dependencies, whatever the iteration order of metas and of each         *)
(* cnum_map.                                                               *)
(***************************************************************************)
C15_OrderingCoversRegistered ==
    (Acyclic(metas) /\ DepsRegistered(metas)) =>
        \A metas_iter \in MetasIters(metas), deps_iter \in DepsIters(metas) :
            LET o == crate_ordering(metas, metas_iter, deps_iter)
            IN  /\ o.st = "ok"
                /\ Len(o.v) = Cardinality(DOMAIN metas)
                /\ Range(o.v) = DOMAIN metas
                /\ \A e \in Edges(metas) : Place(o.v, e[1]) < Place(o.v, e[2])

\* get_used_crates has returned on a diamond: crate 1 depends on crates 2
\* and 3, and crate 2 on crate 3.
C15_Witness ==
    /\ UsedCratesReturned
    /\ DOMAIN metas = {1, 2, 3}
    /\ metas[1].cnum_map = <<2, 3>>
    /\ metas[2].cnum_map = <<3>>
    /\ metas[3].cnum_map = <<>>

\* v is what w starts with.
IsPrefix(v, w) == Len(v) <= Len(w) /\ SubSeq(w, 1, Len(v)) = v

(***************************************************************************)
(* C16.  Entries accumulate: a call of an operation other than reset keeps *)
(* every registered crate number and every bound use site, and leaves the  *)
(* sources, the native libraries and the link arguments with their         *)
(* previous contents as a prefix.  Only reset removes entries, and it      *)
(* removes all of them: a call of reset that returns has emptied the five  *)
(* registries, and one that fails has removed no entry.                    *)
(***************************************************************************)
C16_MonotonicAccumulation ==
    [][/\ ret'.op # "reset" =>
            /\ DOMAIN metas \subseteq DOMAIN metas'
            /\ DOMAIN extern_mod_crate_map \subseteq DOMAIN extern_mod_crate_map'
            /\ IsPrefix(used_crate_sources, used_crate_sources')
            /\ IsPrefix(used_libraries, used_libraries')
            /\ IsPrefix(used_link_args, used_link_args')
       /\ (ret'.op = "reset" /\ ret'.st = "ok") =>
            /\ DOMAIN metas' = {}
            /\ DOMAIN extern_mod_crate_map' = {}
            /\ used_crate_sources' = <<>>
            /\ used_libraries' = <<>>
            /\ used_link_args' = <<>>
       /\ (ret'.op = "reset" /\ ret'.st # "ok") =>
            /\ DOMAIN metas' = DOMAIN metas
            /\ DOMAIN extern_mod_crate_map' = DOMAIN extern_mod_crate_map
            /\ Len(used_crate_sources') = Len(used_crate_sources)
            /\ Len(used_libraries') = Len(used_libraries)
            /\ Len(used_link_args') = Len(used_link_args)]_vars

(***************************************************************************)
(* C17.  reset is all-or-nothing: a call of reset that fails on a borrowed *)
(* registry has changed none of the five registries, and one that returns  *)
(* has emptied all five.                                                   *)
(***************************************************************************)
C17_ResetAllOrNothing ==
    [][ret'.op = "reset" =>
          IF ret'.st = "ok"
          THEN /\ DOMAIN metas' = {}
               /\ DOMAIN extern_mod_crate_map' = {}
               /\ used_crate_sources' = <<>>
               /\ used_libraries' = <<>>
               /\ used_link_args' = <<>>
          ELSE registries' = registries]_vars

(***************************************************************************)
(* C18.  In every reachable state every CrateSource stored in              *)
(* used_crate_sources has its dylib or its rlib present, so that           *)
(* get_used_crates yields a present path for it under RequireDynamic or    *)
(* under RequireStatic.                                                    *)
(***************************************************************************)
C18_SourceHasPath ==
    \A i \in 1..Len(used_crate_sources) :
        \E prefer \in LinkagePreference :
            select_path(used_crate_sources[i], prefer) # None

(***************************************************************************)
(* C19.  add_used_link_args(args) appends one token more than args has     *)
(* spaces; no appended token holds a space; the appended tokens joined     *)
(* with single spaces are args again; a leading or a trailing space gives  *)
(* an empty first or last token, and the empty string gives exactly one    *)
(* empty token.                                                            *)
(***************************************************************************)
C19_LinkArgsRoundTrip ==
    [][ret'.op = "add_used_link_args" =>
          LET args == ret'.args[1]
              n == Len(used_link_args)
              added == SubSeq(used_link_args', n + 1, Len(used_link_args'))
          IN  /\ ret'.st = "ok"
              /\ Len(added) = Count(args, " ") + 1
              /\ \A i \in 1..Len(added) : Count(added[i], " ") = 0
              /\ Join(added, " ") = args
              /\ args = <<>> => added = << <<>> >>
              /\ (args # <<>> /\ args[1] = " ") => added[1] = <<>>
              /\ (args # <<>> /\ args[Len(args)] = " ") => added[Len(added)] = <<>>
      ]_vars

\* Two spaces were added to the empty store: three empty tokens.
C19_Witness ==
    /\ ret.op = "add_used_link_args"
    /\ ret.args[1] = <<" ", " ">>
    /\ used_link_args = << <<>>, <<>>, <<>> >>

(***************************************************************************)
(* C20.  When the dependency graph is acyclic and every dependency is      *)
(* registered, the traversal of get_used_crates, which tests membership by *)
(* scanning the post-order sequence built so far, and the traversal with   *)
(* an explicit visited set give the same ordering for the same iteration   *)
(* order of metas and of each cnum_map, hence the same sorted result for   *)
(* the stored sources under either preference.                             *)
(***************************************************************************)
C20_VisitedSetEquivalence ==
    (Acyclic(metas) /\ DepsRegistered(metas)) =>
        \A metas_iter \in MetasIters(metas), deps_iter \in DepsIters(metas) :
            LET scanned == crate_ordering(metas, metas_iter, deps_iter)
                marked == crate_ordering_marked(metas, metas_iter, deps_iter)
            IN  /\ scanned.st = "ok"
                /\ marked = scanned
                /\ \A prefer \in LinkagePreference :
                      sort_by(collect_libs(used_crate_sources, prefer), marked.v)
                        = used_crates(metas, used_crate_sources, prefer,
                                      metas_iter, deps_iter).v

\* get_used_crates has returned the sources of crates 3 and 1 on a diamond
\* (crate 1 depends on crates 2 and 3, crate 2 on crate 3).
C20_Witness ==
    /\ UsedCratesReturned
    /\ DOMAIN metas = {1, 2, 3}
    /\ metas[1].cnum_map = <<2, 3>>
    /\ metas[2].cnum_map = <<3>>
    /\ Range(SourceCnums(used_crate_sources)) = {1, 3}
    /\ Cnums(ret.val)[1] = 1

====
